---- MODULE Spec2Model ----
(***************************************************************************)
(* Model of the helper library of cloudflare-gateway-pihole-scripts:       *)
(*   - request: the token-rotating HTTP client, in its two variants        *)
(*       "lib"  = src/lib/helpers.js      (lines 83-127)                   *)
(*       "part" = src/unnamed/part_000    (lines 83-156)                   *)
(*   - notifyWebhook / sendMessageToWebhook (lines 31-75 of both files)    *)
(*   - normalizeDomain (helpers.js 145-156, part_000 174-185)              *)
(* JavaScript strings are sequences of one-character strings.              *)
(***************************************************************************)
EXTENDS Integers, Sequences, FiniteSets, TLC

VARIABLES
    variant,      \* which source file's request is running: "lib" or "part"
    env,          \* the four token slots of constants.js, by slot name
    pc,           \* position of the request call
    tokens,       \* tokens (lib) / allTokens (part): the Credential Set
    attempts,     \* let attempts
    tokenIndex,   \* let tokenIndex (NaN after a remainder by zero)
    response,     \* let response: the last Response fetch resolved with
    data,         \* let data: the last body response.json() resolved with
    error,        \* the error caught by the last catch
    outcome,      \* what the call returned or raised
    sent,         \* history: number of API fetches issued by the call
    waits,        \* history: number of wait(5000) started by the call
    used,         \* history: tokenIndex at each API fetch
    lastStatus,   \* history: status of the last HTTP response received
    notified,     \* history: messages passed to notifyWebhook
    posts,        \* history: bodies POSTed to the webhook
    hook,         \* outcome of the webhook POST seen by notifyWebhook
    value,        \* normalizeDomain: argument value
    isAllowlisting, \* normalizeDomain: argument isAllowlisting
    wrapping,     \* how value was built from the bare domain
    bare,         \* the bare domain value was built from
    normalized,   \* normalizeDomain: returned string
    options,      \* request: options.headers, the caller-supplied headers
    API_KEY,      \* the API_KEY constant of constants.js
    logged,       \* history: the token texts the call wrote to the console
    spun,         \* history: parity of the iterations part_000 skipped by continue
    other         \* the locals of a second call, suspended at an await

reqVars == <<variant, env, pc, tokens, attempts, tokenIndex, response, data,
             error, outcome, sent, waits, used, lastStatus, notified, posts, hook>>
normVars == <<value, isAllowlisting, wrapping, bare, normalized>>
auxVars == <<options, API_KEY, logged, spun>>
vars == <<reqVars, normVars, auxVars, other>>

(***************************************************************************)
(* JavaScript values                                                       *)
(***************************************************************************)
\* The value of a remainder by zero: (tokenIndex + 1) % 0.
NaN == 0 - 1

\* An undefined string-valued binding, and a defined one.
Undefined == [def |-> FALSE, val |-> <<>>]
Str(s) == [def |-> TRUE, val |-> s]

\* Boolean(x) for a string-or-undefined x: undefined and "" are falsy.
Truthy(x) == x.def /\ x.val # <<>>

\* Array.prototype.filter(Boolean)
RECURSIVE FilterBoolean(_)
FilterBoolean(arr) ==
    IF arr = <<>> THEN <<>>
    ELSE IF Truthy(Head(arr)) THEN <<Head(arr)>> \o FilterBoolean(Tail(arr))
         ELSE FilterBoolean(Tail(arr))

\* arr[i]: undefined outside the array and for i = NaN.
At(arr, i) == IF i \in 0 .. Len(arr) - 1 THEN arr[i + 1] ELSE Undefined

(***************************************************************************)
(* Configuration and inputs                                                *)
(***************************************************************************)
\* The token each slot of constants.js holds when it is configured.
TokenOf(slot) ==
    CASE slot = "API_TOKEN"   -> <<"p", "r", "i", "m", "a", "r", "y">>
      [] slot = "API_TOKEN_1" -> <<"a", "u", "x", "1">>
      [] slot = "API_TOKEN_2" -> <<"s", "e", "c", "o", "n", "d">>
      [] slot = "API_TOKEN_3" -> <<"t", "h", "i", "r", "d">>

Slots == {"API_TOKEN", "API_TOKEN_1", "API_TOKEN_2", "API_TOKEN_3"}

\* A slot that is not configured is absent (undefined) or empty (""),
\* according to how the environment leaves it; a configured one holds its token.
SlotValues(slot) ==
    IF slot \in {"API_TOKEN_1", "API_TOKEN_3"}
    THEN {Undefined, Str(TokenOf(slot))}
    ELSE {Str(<<>>), Str(TokenOf(slot))}

Envs == {e \in [Slots -> {Undefined, Str(<<>>)} \cup {Str(TokenOf(s)) : s \in Slots}] :
            \A s \in Slots : e[s] \in SlotValues(s)}

\* HTTP statuses the API answers with.
Statuses == {200, 500}

\* Response bodies: three JSON documents and one that is not JSON.
\*   "errors"      {"errors": [{"message": "m"}]}
\*   "emptyErrors" {"errors": [], "result": ...}
\*   "result"      {"result": ...}            (no errors key)
\*   "html"        not parsable as JSON
JsonBodies == {"errors", "emptyErrors", "result"}
Bodies == JsonBodies \cup {"html"}

NoResponse == [def |-> FALSE, status |-> 0, body |-> "none"]
Response(st, b) == [def |-> TRUE, status |-> st, body |-> b]

\* Response.ok
Ok(resp) == resp.status \in 200 .. 299

(***************************************************************************)
(* request                                                                 *)
(***************************************************************************)
maxAttempts == 50

\* The array literal the Credential Set is filtered from.
SlotOrderPrimaryFirst(v) ==
    <<"API_TOKEN", "API_TOKEN_1", "API_TOKEN_2", "API_TOKEN_3">>
SlotOrder(v) ==
    IF v = "lib"
    THEN <<"API_TOKEN_1", "API_TOKEN_2", "API_TOKEN_3", "API_TOKEN">>
    ELSE <<"API_TOKEN", "API_TOKEN_1", "API_TOKEN_2", "API_TOKEN_3">>

CredentialSet(v, e) ==
    FilterBoolean([i \in 1 .. 4 |-> e[SlotOrder(v)[i]]])

\* (tokenIndex + 1) % tokens.length
RotateStay(i, n) == IF n = 0 \/ i = NaN THEN NaN ELSE i
RotateSkip(i, n) == IF n = 0 \/ i = NaN THEN NaN ELSE (i + 2) % n
Rotate(i, n) == IF n = 0 \/ i = NaN THEN NaN ELSE (i + 1) % n

\* while (attempts < maxAttempts)
LoopGuardOffByOne(a) == a <= maxAttempts
LoopGuard(a) == a < maxAttempts

ExhaustedEarly(a) == a >= 1

\* if (attempts >= maxAttempts) in the catch of part_000
Exhausted(a) == a >= maxAttempts

\* What a call returned or raised.
\*   kind: "none" (still running), "returned", "raised"
\*   by:   the function whose throw statement or expression raised
\*   name: the error's class; text: its message template
\*   status, detail, cause: the values interpolated into the message
NoOutcome ==
    [kind |-> "none", by |-> "none", name |-> "none", text |-> "none",
     status |-> NaN, detail |-> "none", cause |-> "none", body |-> "none"]

Returned(d) == [NoOutcome EXCEPT !.kind = "returned", !.body = d]

Raised(by, name, text) ==
    [NoOutcome EXCEPT !.kind = "raised", !.by = by, !.name = name, !.text = text]

\* helpers.js: throw new Error('All tokens failed after maximum attempts')
AllTokensFailed == Raised("request", "Error", "All tokens failed after maximum attempts")

\* data && 'errors' in data ? data.errors[0].message : data
\*   "TypeError" when data.errors[0] is undefined.
ErrorDetail(d) ==
    IF d # "undefined" /\ d \in {"errors", "emptyErrors"}
    THEN IF d = "errors" THEN "m" ELSE "TypeError"
    ELSE d

\* part_000: throw new Error(`HTTP error! Status: ${response.status} - ${...} - ${error}`)
\*   reading .status of an undefined response raises a TypeError instead.
ExhaustionError(resp, d, err) ==
    IF ~resp.def
    THEN Raised("request", "TypeError", "Cannot read properties of undefined")
    ELSE IF ErrorDetail(d) = "TypeError"
         THEN Raised("request", "TypeError", "Cannot read properties of undefined")
         ELSE [Raised("request", "Error", "HTTP error! Status") EXCEPT
                  !.status = resp.status, !.detail = ErrorDetail(d), !.cause = err]

\* part_000: the message passed to notifyWebhook:
\*   `An HTTP error has occurred (${response ? response.status : 'unknown status'}) ...`
NotifyMessage(resp) ==
    [text |-> "An HTTP error has occurred",
     known |-> resp.def,
     status |-> IF resp.def THEN resp.status ELSE NaN]

\* `${x}` for a string-or-undefined x.
Interpolate(x) ==
    IF x.def THEN x.val ELSE <<"u", "n", "d", "e", "f", "i", "n", "e", "d">>

\* part_000: currentToken.substring(0, 5)
PrefixLen == 5

Substring(s, from, to) == SubSeq(s, from + 1, IF to < Len(s) THEN to ELSE Len(s))

\* The token text of the console.log lines of an attempt:
\*   helpers.js 95:       `Attempting request with token: ${currentToken}`
\*   part_000 106, 127:   `... API token: ${currentToken.substring(0, 5)}...`
LoggedToken(v, tok) ==
    IF v = "lib" THEN Interpolate(tok) ELSE Substring(tok.val, 0, PrefixLen)

\* Header objects: a value for each name, "absent" when the key is missing.
HeaderNames == {"Authorization", "Content-Type", "X-Auth-Email", "X-Auth-Key", "Accept"}

HeaderValue(k, a) == [kind |-> k, arg |-> a]
Absent == HeaderValue("absent", Undefined)
NoHeaders == [h \in HeaderNames |-> Absent]

\* { ...a, ...b }: the keys of b override those of a.
MergeHeadersCallerWins(a, b) ==
    [h \in HeaderNames |-> IF a[h].kind # "absent" THEN a[h] ELSE b[h]]
MergeHeaders(a, b) ==
    [h \in HeaderNames |-> IF b[h].kind # "absent" THEN b[h] ELSE a[h]]

\* const headers = { Authorization: `Bearer ${currentToken}`,
\*                   "Content-Type": "application/json",
\*   helpers.js:     ...(currentToken === API_KEY &&
\*                       { "X-Auth-Email": ACCOUNT_EMAIL, "X-Auth-Key": API_KEY }) }
AttemptHeaders(v, tok, key) ==
    [h \in HeaderNames |->
        CASE h = "Authorization" -> HeaderValue("Bearer", tok)
          [] h = "Content-Type"  -> HeaderValue("application/json", Undefined)
          [] h = "X-Auth-Email" /\ v = "lib" /\ tok = key
                                 -> HeaderValue("ACCOUNT_EMAIL", Undefined)
          [] h = "X-Auth-Key" /\ v = "lib" /\ tok = key
                                 -> HeaderValue("API_KEY", key)
          [] OTHER               -> Absent]

\* The catch block, up to its first await.
Catch(err) ==
    /\ error' = err
    /\ attempts' = attempts + 1
    /\ tokenIndex' = Rotate(tokenIndex, Len(tokens))
    /\ IF variant = "lib"
       THEN /\ IF tokenIndex' = 0
               THEN pc' = "wait" /\ waits' = waits + 1
               ELSE pc' = "loop" /\ waits' = waits
            /\ notified' = notified
       ELSE IF Exhausted(attempts')
            THEN /\ notified' = Append(notified, NotifyMessage(response))
                 /\ pc' = "notify"
                 /\ waits' = waits
            ELSE /\ pc' = "wait"
                 /\ waits' = waits + 1
                 /\ notified' = notified
    /\ logged' = IF variant = "lib"
                 THEN logged \cup {Interpolate(At(tokens, tokenIndex))}
                 ELSE logged
    /\ UNCHANGED <<variant, env, tokens, response, outcome, sent, used,
                   lastStatus, posts, hook, options, API_KEY, spun, other>>

\* The call starts: the locals are initialised and the Credential Set is built.
Request ==
    /\ pc = "idle"
    /\ tokens' = CredentialSet(variant, env)
    /\ attempts' = 0
    /\ tokenIndex' = 0
    /\ pc' = "loop"
    /\ UNCHANGED <<variant, env, response, data, error, outcome, sent, waits,
                   used, lastStatus, notified, posts, hook, normVars, auxVars, other>>

\* The loop test and the body of the try up to the fetch.
LoopTest ==
    /\ pc = "loop"
    /\ LET currentToken == At(tokens, tokenIndex) IN
       IF LoopGuard(attempts)
       THEN IF variant = "part" /\ ~Truthy(currentToken)
            THEN \* part_000: if (!currentToken) { rotate; continue; }
                 /\ tokenIndex' = Rotate(tokenIndex, Len(tokens))
                 /\ spun' = ~spun
                 /\ UNCHANGED <<pc, sent, used, outcome, logged>>
            ELSE /\ sent' = sent + 1
                 /\ logged' = logged \cup {LoggedToken(variant, currentToken)}
                 /\ used' = Append(used,
                        [index |-> tokenIndex, token |-> currentToken,
                         headers |-> MergeHeaders(options,
                                        AttemptHeaders(variant, currentToken, API_KEY))])
                 /\ pc' = "fetch"
                 /\ UNCHANGED <<tokenIndex, outcome, spun>>
       ELSE /\ outcome' = IF variant = "lib" THEN AllTokensFailed ELSE Returned("undefined")
            /\ pc' = IF variant = "lib" THEN "raised" ELSE "returned"
            /\ UNCHANGED <<tokenIndex, sent, used, logged, spun>>
    /\ UNCHANGED <<variant, env, tokens, attempts, response, data, error, waits,
                   lastStatus, notified, posts, hook, normVars, options, API_KEY, other>>

\* await fetch(...) rejects: a network-level error.
FetchReject ==
    /\ pc = "fetch"
    /\ Catch("TypeError: fetch failed")
    /\ UNCHANGED <<data, normVars>>

\* await fetch(...) resolves with a Response.
FetchResolve ==
    /\ pc = "fetch"
    /\ \E st \in Statuses, b \in Bodies :
          /\ response' = Response(st, b)
          /\ lastStatus' = st
    /\ pc' = "json"
    /\ UNCHANGED <<variant, env, tokens, attempts, tokenIndex, data, error, outcome,
                   sent, waits, used, notified, posts, hook, normVars, auxVars, other>>

\* await response.json(), then the test of response.ok.
ReturnStale(d) == Returned(data)
Return(d) == Returned(d)

JsonSettle ==
    /\ pc = "json"
    /\ IF response.body \in JsonBodies
       THEN /\ data' = response.body
            /\ IF ~Ok(response)
               THEN Catch("Error: Response not OK")
               ELSE /\ outcome' = Return(data')
                    /\ pc' = "returned"
                    /\ logged' = IF variant = "part"
                                 THEN logged \cup
                                      {LoggedToken(variant, At(tokens, tokenIndex))}
                                 ELSE logged
                    /\ UNCHANGED <<variant, env, tokens, attempts, tokenIndex, response,
                                   error, sent, waits, used, lastStatus, notified,
                                   posts, hook, options, API_KEY, spun, other>>
       ELSE /\ data' = data
            /\ Catch("SyntaxError: Unexpected token")
    /\ UNCHANGED normVars

\* await wait(5000) completes.
Wait ==
    /\ pc = "wait"
    /\ pc' = "loop"
    /\ UNCHANGED <<variant, env, tokens, attempts, tokenIndex, response, data, error,
                   outcome, sent, waits, used, lastStatus, notified, posts, hook,
                   normVars, auxVars, other>>

(***************************************************************************)
(* notifyWebhook and sendMessageToWebhook                                  *)
(***************************************************************************)
\* Values of process.env.DISCORD_WEBHOOK_URL.
WebhookUrls ==
    {Undefined,
     Str(<<>>),
     Str(<<"f", "t", "p", ":", "/", "/", "h">>),
     Str(<<"h", "t", "t", "p", "x">>),
     Str(<<"h", "t", "t", "p", "s", ":", "/", "/", "h">>)}

\* String.prototype.startsWith
StartsWith(s, prefix) ==
    /\ Len(s) >= Len(prefix)
    /\ SubSeq(s, 1, Len(prefix)) = prefix

\* webhook_url && webhook_url.startsWith('http'); "throw" is a TypeError of
\* the call of startsWith on undefined, which && never reaches.
UrlConditionAnyValue(url) == IF ~Truthy(url) THEN "false" ELSE "true"
UrlCondition(url) ==
    IF ~Truthy(url) THEN "false"
    ELSE IF StartsWith(url.val, <<"h", "t", "t", "p">>) THEN "true" ELSE "false"

\* The payload sendMessageToWebhook builds: { content: message, body: message }
Payload(message) == [content |-> message, body |-> message]

\* Outcomes of the POST to the webhook.
PostOutcomes == {"2xx", "non2xx", "reject"}

\* The try block of sendMessageToWebhook: the awaited fetch rejects, or the
\* response is not ok and an Error is thrown, or true is returned.
SendTry(post) == IF post = "2xx" THEN "true" ELSE "throw"

\* sendMessageToWebhook: its catch logs and returns false.
SendMessageToWebhook(post) ==
    IF SendTry(post) = "throw" THEN "false" ELSE SendTry(post)

\* notifyWebhook from the await of sendMessageToWebhook on: its catch logs.
\* "done" when it completes, "throw" when an error escapes it.
NotifyEscapes(post) == IF SendTry(post) = "throw" THEN "throw" ELSE "done"
NotifySettle(post) ==
    IF SendMessageToWebhook(post) = "throw" THEN "done" ELSE "done"

NoHook == [url |-> Undefined, post |-> "none", result |-> "none"]

\* await notifyWebhook(...): notifyWebhook runs up to its await.
NotifyWebhook ==
    /\ pc = "notify"
    /\ \E url \in WebhookUrls :
          LET cond == UrlCondition(url)
              msg == notified[Len(notified)] IN
          /\ hook' = [NoHook EXCEPT !.url = url]
          /\ IF cond = "true"
             THEN /\ posts' = Append(posts, Payload([prefix |-> "CGPS: ", msg |-> msg]))
                  /\ pc' = "webhook"
                  /\ outcome' = outcome
             ELSE IF cond = "false"
                  THEN /\ pc' = "throw"
                       /\ UNCHANGED <<posts, outcome>>
                  ELSE /\ pc' = "raised"
                       /\ outcome' = Raised("notifyWebhook", "TypeError",
                                            "Cannot read properties of undefined")
                       /\ posts' = posts
    /\ UNCHANGED <<variant, env, tokens, attempts, tokenIndex, response, data, error,
                   sent, waits, used, lastStatus, notified, normVars, auxVars, other>>

\* The POST to the webhook settles and notifyWebhook finishes.
WebhookSettle ==
    /\ pc = "webhook"
    /\ \E post \in PostOutcomes :
          /\ hook' = [hook EXCEPT !.post = post, !.result = SendMessageToWebhook(post)]
          /\ IF NotifySettle(post) = "done"
             THEN /\ pc' = "throw"
                  /\ outcome' = outcome
             ELSE /\ pc' = "raised"
                  /\ outcome' = Raised("notifyWebhook", "Error", "HTTP error! Status")
    /\ UNCHANGED <<variant, env, tokens, attempts, tokenIndex, response, data, error,
                   sent, waits, used, lastStatus, notified, posts, normVars, auxVars,
                   other>>

\* part_000: the throw statement after the await of notifyWebhook.
Throw ==
    /\ pc = "throw"
    /\ outcome' = ExhaustionError(response, data, error)
    /\ pc' = "raised"
    /\ UNCHANGED <<variant, env, tokens, attempts, tokenIndex, response, data, error,
                   sent, waits, used, lastStatus, notified, posts, hook, normVars,
                   auxVars, other>>

(***************************************************************************)
(* The request call as a state machine                                     *)
(***************************************************************************)
NormIdle ==
    /\ value = <<>>
    /\ isAllowlisting = FALSE
    /\ wrapping = "none"
    /\ bare = <<>>
    /\ normalized = <<>>

ReqIdle ==
    /\ pc = "idle"
    /\ tokens = <<>>
    /\ attempts = 0
    /\ tokenIndex = 0
    /\ response = NoResponse
    /\ data = "undefined"
    /\ error = "none"
    /\ outcome = NoOutcome
    /\ sent = 0
    /\ waits = 0
    /\ used = <<>>
    /\ lastStatus = NaN
    /\ notified = <<>>
    /\ posts = <<>>
    /\ hook = NoHook
    /\ logged = {}
    /\ spun = FALSE

\* The locals of a call that has not started.
IdleLocals ==
    [pc |-> "idle", tokens |-> <<>>, attempts |-> 0, tokenIndex |-> 0,
     response |-> NoResponse, data |-> "undefined", error |-> "none",
     outcome |-> NoOutcome, sent |-> 0, waits |-> 0, used |-> <<>>,
     lastStatus |-> NaN, notified |-> <<>>, posts |-> <<>>, hook |-> NoHook,
     logged |-> {}, spun |-> FALSE]

Init ==
    /\ variant \in {"lib", "part"}
    /\ env \in Envs
    /\ ReqIdle
    /\ NormIdle
    /\ options = NoHeaders
    /\ API_KEY = Undefined
    /\ other = IdleLocals

Next ==
    \/ Request
    \/ LoopTest
    \/ FetchReject
    \/ FetchResolve
    \/ JsonSettle
    \/ Wait
    \/ NotifyWebhook
    \/ WebhookSettle
    \/ Throw

Spec == Init /\ [][Next]_vars

(***************************************************************************)
(* Properties of request                                                   *)
(***************************************************************************)
\* The token indices of the call in order: the index of every attempt made,
\* followed by the index the next attempt would use once the last has failed.
Indices ==
    LET made == [k \in 1 .. Len(used) |-> used[k].index] IN
    IF pc \in {"fetch", "json", "returned"} THEN made ELSE made \o <<tokenIndex>>

\* C1: with 1 to 4 tokens one call sends at most 50 HTTP requests: the number
\* of failed attempts never exceeds 50, and once it is 50 no request is in
\* flight, none is sent any more and the call can only end by raising.
C1_AtMostFiftyRequests ==
    (pc # "idle" /\ Len(tokens) >= 1) =>
        /\ sent <= maxAttempts
        /\ attempts <= maxAttempts
        /\ attempts = maxAttempts =>
              /\ sent = maxAttempts
              /\ pc \in {"loop", "wait", "notify", "webhook", "throw", "raised"}
              /\ outcome.kind \in {"none", "raised"}
              /\ pc = "loop" => ~LoopGuard(attempts)

C1_Witness ==
    /\ Len(tokens) = 3
    /\ attempts = maxAttempts
    /\ sent = maxAttempts
    /\ pc = "raised"

\* C2: a call that got a 2xx response with a parsable body on attempt k has
\* returned exactly that body, after k requests and k - 1 failures, every
\* backoff wait and every request precedes it, the notifier was not called,
\* and nothing of the call runs afterwards.
C2_SuccessReturnsBodyAndStops ==
    /\ (pc = "returned") =>
          /\ Ok(response) /\ response.body \in JsonBodies
          /\ outcome = Returned(response.body)
          /\ sent = attempts + 1
          /\ waits <= attempts
          /\ notified = <<>> /\ posts = <<>>
          /\ ~ENABLED Next
    /\ (pc = "json" /\ Ok(response) /\ response.body \in JsonBodies) =>
          ENABLED (JsonSettle /\ pc' = "returned" /\ sent' = sent /\ waits' = waits)

C2_Witness ==
    /\ pc = "returned"
    /\ attempts = 3
    /\ data = "emptyErrors"
    /\ response.status = 200

\* C3: a failed attempt is followed by a backoff wait if and only if the
\* rotation after it wrapped the token index back to 0, so that there is one
\* wait per full cycle through the Credential Set.
C3_BackoffIffWrapped ==
    [][(Len(tokens) >= 1 /\ attempts' = attempts + 1) =>
          /\ (pc' = "wait") <=> (tokenIndex' = 0)
          /\ waits' = attempts' \div Len(tokens)]_vars

\* C4: with N >= 1 tokens the token index stays within 0..N-1, and the N
\* most recent consecutive failed attempts (hence, the property holding in
\* every state, any N consecutive ones) used each index 0..N-1 exactly once
\* and left the index at the value it had before them.
C4_RotationIsCyclic ==
    (pc # "idle" /\ Len(tokens) >= 1) =>
        LET N == Len(tokens)
            idx == Indices
            last == Len(idx)
            k == last - N IN
        /\ tokenIndex \in 0 .. N - 1
        /\ idx[last] \in 0 .. N - 1
        /\ k >= 1 =>
              /\ idx[last] = idx[k]
              /\ {idx[j] : j \in k .. last - 1} = 0 .. N - 1
              /\ \A i, j \in k .. last - 1 : idx[i] = idx[j] => i = j

C4_Witness ==
    /\ Len(tokens) = 3
    /\ attempts = 4
    /\ pc = "loop"
    /\ tokenIndex = 1

\* C5: with an empty Credential Set the call sends no HTTP request and its
\* first step raises.
C5_EmptySetFailsImmediately ==
    [][(pc = "loop" /\ Len(tokens) = 0) => (pc' = "raised" /\ sent' = 0)]_vars

\* C6: a call that raised after exhausting its attempts has invoked the
\* notifier with a message that contains the last HTTP status observed.
C6_NotifierGetsLastStatus ==
    (outcome.kind = "raised" /\ Len(tokens) >= 1 /\ lastStatus # NaN) =>
        /\ Len(notified) = 1
        /\ notified[1].known
        /\ notified[1].status = lastStatus

\* C7: after 50 failed attempts of any kind the call raises an error that
\* carries the last HTTP status (when one was observed) and the last error
\* message.
C7_FailureCarriesStatusAndMessage ==
    (outcome.kind = "raised" /\ Len(tokens) >= 1) =>
        /\ outcome.name = "Error"
        /\ outcome.cause = error
        /\ lastStatus # NaN => outcome.status = lastStatus

\* C8: whatever the webhook POST does, sendMessageToWebhook returns true or
\* false and notifyWebhook completes, so that the error the call raises is the
\* one its own throw statement produces and never one of the notifier.
C8_NotifierNeverMasks ==
    /\ hook.post # "none" =>
          /\ hook.result = (IF hook.post = "2xx" THEN "true" ELSE "false")
          /\ pc \in {"throw", "raised"}
    /\ outcome.kind = "raised" =>
          /\ outcome.by = "request"
          /\ outcome = (IF variant = "lib" THEN AllTokensFailed
                        ELSE ExhaustionError(response, data, error))

C8_Witness ==
    /\ pc = "raised"
    /\ hook.post = "reject"
    /\ outcome.name = "Error"

(***************************************************************************)
(* normalizeDomain                                                         *)
(***************************************************************************)
\* Longest bare domain that is enumerated.
MaxDomainLen == 3

\* Characters bare domains are drawn from.
DomainChars == {"a", ".", "|", "*", ":", "@"}

\* Characters matched by \s.
IsSpace(c) == c \in {" ", "\t"}

\* String.prototype.indexOf, 1-based; 0 when pat does not occur in s.
IndexOf(s, pat) ==
    LET hits == {i \in 1 .. Len(s) - Len(pat) + 1 : SubSeq(s, i, i + Len(pat) - 1) = pat} IN
    IF hits = {} THEN 0 ELSE CHOOSE i \in hits : \A j \in hits : i <= j

\* s with the characters at positions from .. to - 1 removed.
Cut(s, from, to) == SubSeq(s, 1, from - 1) \o SubSeq(s, to, Len(s))

\* s.replace(pat, "") for a string pat: the first occurrence only.
RemoveFirst(s, pat) ==
    LET i == IndexOf(s, pat) IN
    IF i = 0 THEN s ELSE Cut(s, i, i + Len(pat))

\* The alternatives of the regular expression, in its order.
HostPrefixes ==
    << <<"0", ".", "0", ".", "0", ".", "0">>,
       <<"1", "2", "7", ".", "0", ".", "0", ".", "1">>,
       <<":", ":", "1">>,
       <<":", ":">> >>

\* The end (exclusive) of the match of (0\.0\.0\.0|127\.0\.0\.1|::1|::)\s+
\* at position i of s, or 0: the first alternative that is followed by
\* whitespace, and then all the whitespace that follows it.
RECURSIVE SpaceEnd(_, _)
SpaceEnd(s, j) == IF j <= Len(s) /\ IsSpace(s[j]) THEN SpaceEnd(s, j + 1) ELSE j

MatchAt(s, i) ==
    LET fits(a) == /\ i + Len(HostPrefixes[a]) <= Len(s)
                   /\ SubSeq(s, i, i + Len(HostPrefixes[a]) - 1) = HostPrefixes[a]
                   /\ IsSpace(s[i + Len(HostPrefixes[a])])
        alts == {a \in 1 .. Len(HostPrefixes) : fits(a)} IN
    IF alts = {} THEN 0
    ELSE LET a == CHOOSE x \in alts : \A y \in alts : x <= y IN
         SpaceEnd(s, i + Len(HostPrefixes[a]))

\* s.replace(/(0\.0\.0\.0|127\.0\.0\.1|::1|::)\s+/, ""): the leftmost match.
RemoveHostPrefix(s) ==
    LET starts == {i \in 1 .. Len(s) : MatchAt(s, i) # 0} IN
    IF starts = {} THEN s
    ELSE LET i == CHOOSE x \in starts : \A y \in starts : x <= y IN
         Cut(s, i, MatchAt(s, i))

Bars == <<"|", "|">>
Important == <<"^", "$", "i", "m", "p", "o", "r", "t", "a", "n", "t">>
Wildcard == <<"*", ".">>
Caret == <<"^">>
AllowBars == <<"@", "@", "|", "|">>

normalizeDomainCaretFirst(v, allow) ==
    LET n == RemoveFirst(RemoveFirst(RemoveFirst(RemoveFirst(
                 RemoveHostPrefix(v), Bars), Caret), Important), Wildcard) IN
    IF allow THEN RemoveFirst(n, AllowBars) ELSE n

normalizeDomain(v, allow) ==
    LET n == RemoveFirst(RemoveFirst(RemoveFirst(RemoveFirst(
                 RemoveHostPrefix(v), Bars), Important), Wildcard), Caret) IN
    IF allow THEN RemoveFirst(n, AllowBars) ELSE n

\* The markers normalizeDomain removes, and the strings that contain none.
Markers == {Bars, Important, Wildcard, Caret, AllowBars}

NoMarkers(d) ==
    /\ \A m \in Markers : IndexOf(d, m) = 0
    /\ RemoveHostPrefix(d) = d

RECURSIVE StringsUpTo(_)
StringsUpTo(n) ==
    IF n = 0 THEN {<<>>}
    ELSE LET shorter == StringsUpTo(n - 1) IN
         shorter \cup {Append(t, c) : t \in shorter, c \in DomainChars}

BareDomains == {d \in StringsUpTo(MaxDomainLen) : d # <<>> /\ NoMarkers(d)}

\* The ways a list entry wraps a bare domain.
NoWrapping == [kind |-> "none", prefix |-> <<>>, space |-> <<>>]

Wrappings ==
    {[NoWrapping EXCEPT !.kind = k] :
        k \in {"bare", "adblock", "important", "wildcard", "allow", "allowCaret"}}
    \cup {[kind |-> "hosts", prefix |-> HostPrefixes[a], space |-> sp] :
            a \in 1 .. Len(HostPrefixes), sp \in {<<" ">>, <<"\t">>, <<" ", " ">>}}

Wrap(w, d) ==
    CASE w.kind = "bare"       -> d
      [] w.kind = "hosts"      -> w.prefix \o w.space \o d
      [] w.kind = "adblock"    -> Bars \o d \o Caret
      [] w.kind = "important"  -> Bars \o d \o Important
      [] w.kind = "wildcard"   -> Wildcard \o d
      [] w.kind = "allow"      -> AllowBars \o d
      [] w.kind = "allowCaret" -> AllowBars \o d \o Caret

\* A list entry is about to be normalized.
NormInit ==
    /\ variant = "lib"
    /\ env \in {e \in Envs : \A s \in Slots : ~Truthy(e[s])}
    /\ ReqIdle
    /\ bare \in BareDomains
    /\ wrapping \in Wrappings
    /\ value = Wrap(wrapping, bare)
    /\ isAllowlisting \in BOOLEAN
    /\ normalized = <<>>
    /\ options = NoHeaders
    /\ API_KEY = Undefined
    /\ other = IdleLocals

\* normalizeDomain(value, isAllowlisting) is called and returns.
Normalize ==
    /\ pc = "idle"
    /\ wrapping.kind # "none"
    /\ normalized' = normalizeDomain(value, isAllowlisting)
    /\ pc' = "normalized"
    /\ UNCHANGED <<variant, env, tokens, attempts, tokenIndex, response, data, error,
                   outcome, sent, waits, used, lastStatus, notified, posts, hook,
                   value, isAllowlisting, wrapping, bare, auxVars, other>>

NormNext == Normalize

NormSpec == NormInit /\ [][NormNext]_vars

\* C9: with isAllowlisting = true, "@@||" followed by a bare domain d is
\* normalized to d.
C9_AllowEntryBecomesBare ==
    (pc = "normalized" /\ isAllowlisting /\ wrapping.kind = "allow") =>
        normalized = bare

\* C10: with isAllowlisting = false, a bare domain d is returned unchanged and
\* each block-list wrapping of d (host-file prefix and whitespace, ||d^,
\* ||d^$important, *.d) is normalized to d.
C10_BlockEntryBecomesBare ==
    (pc = "normalized" /\ ~isAllowlisting
        /\ wrapping.kind \in {"bare", "hosts", "adblock", "important", "wildcard"}) =>
        normalized = bare

C10_Witness ==
    /\ pc = "normalized"
    /\ ~isAllowlisting
    /\ wrapping.kind = "important"
    /\ bare = <<"a", ".", "a">>
    /\ normalized = bare

(***************************************************************************)
(* The headers of an attempt                                               *)
(***************************************************************************)
\* A header value the caller supplied.
CallerValue == HeaderValue("caller", Undefined)

\* options.headers of the callers: none, the two headers request sets itself,
\* two others, and all of them.
CallerOptions ==
    {[h \in HeaderNames |-> IF h \in given THEN CallerValue ELSE Absent] :
        given \in {{}, {"Authorization", "Content-Type"}, {"Accept", "X-Auth-Email"},
                   HeaderNames}}

\* Configurations with at most the primary and the first auxiliary token.
HeaderEnvs == {e \in Envs : ~Truthy(e["API_TOKEN_2"]) /\ ~Truthy(e["API_TOKEN_3"])}

\* API_KEY is not configured, or the account's key is also given as API_TOKEN.
ApiKeys == {Undefined, Str(TokenOf("API_TOKEN"))}

HeaderInit ==
    /\ variant \in {"lib", "part"}
    /\ env \in HeaderEnvs
    /\ ReqIdle
    /\ NormIdle
    /\ options \in CallerOptions
    /\ API_KEY \in ApiKeys
    /\ other = IdleLocals

HeaderSpec == HeaderInit /\ [][Next]_vars

\* The headers, and the token, of the most recent attempt.
LastSent == used[Len(used)]

\* helpers.js adds the key pair when the current token is API_KEY.
AddsKeyPair(v, tok, key) == v = "lib" /\ tok = key

\* C11 as stated: in every attempt Authorization is "Bearer <current token>"
\* and Content-Type is application/json whatever the caller supplied, and
\* every other header the caller supplied is sent unchanged (stated for the
\* calls that have a token to send).
C11_OnlyThePairOverrides ==
    (used # <<>> /\ Len(tokens) >= 1) =>
        /\ LastSent.headers["Authorization"] = HeaderValue("Bearer", LastSent.token)
        /\ LastSent.headers["Content-Type"] = HeaderValue("application/json", Undefined)
        /\ \A h \in HeaderNames \ {"Authorization", "Content-Type"} :
              options[h] # Absent => LastSent.headers[h] = options[h]

\* C11 as amended: the same, except that helpers.js, when the current token
\* equals API_KEY, also sets X-Auth-Email to ACCOUNT_EMAIL and X-Auth-Key to
\* API_KEY, overriding the caller's values of these two.
C11_PairAndKeyPairOverride ==
    used # <<>> =>
        /\ LastSent.headers["Authorization"] = HeaderValue("Bearer", LastSent.token)
        /\ LastSent.headers["Content-Type"] = HeaderValue("application/json", Undefined)
        /\ \A h \in HeaderNames \ {"Authorization", "Content-Type"} :
              IF h \in {"X-Auth-Email", "X-Auth-Key"}
                 /\ AddsKeyPair(variant, LastSent.token, API_KEY)
              THEN LastSent.headers[h] =
                      (IF h = "X-Auth-Email" THEN HeaderValue("ACCOUNT_EMAIL", Undefined)
                       ELSE HeaderValue("API_KEY", API_KEY))
              ELSE options[h] # Absent => LastSent.headers[h] = options[h]

C11_Witness ==
    /\ pc = "fetch"
    /\ attempts = 2
    /\ options["Authorization"] = CallerValue
    /\ options["X-Auth-Email"] = CallerValue
    /\ LastSent.headers["Authorization"] = HeaderValue("Bearer", Str(TokenOf("API_TOKEN_1")))
    /\ LastSent.headers["Accept"] = CallerValue

(***************************************************************************)
(* The log lines of an attempt                                             *)
(***************************************************************************)
\* C12: no log line of an attempt contains the full value of a token that is
\* longer than the logged prefix.
C12_LogsOnlyPrefix ==
    \A k \in 1 .. Len(tokens) :
        Len(tokens[k].val) > PrefixLen =>
            \A line \in logged : IndexOf(line, tokens[k].val) = 0

(***************************************************************************)
(* The POST of notifyWebhook                                               *)
(***************************************************************************)
\* notifyWebhook has run up to its await, or has finished.
NotifyRan == variant = "part" /\ pc \in {"webhook", "throw", "raised"}

\* The value has the form of an HTTP(S) URL: the scheme, "://" and a host.
LooksLikeHttpUrl(s) ==
    \/ StartsWith(s, <<"h", "t", "t", "p", ":", "/", "/">>) /\ Len(s) > 7
    \/ StartsWith(s, <<"h", "t", "t", "p", "s", ":", "/", "/">>) /\ Len(s) > 8

\* The one POST notifyWebhook makes for the message msg.
OnePost(msg) == <<Payload([prefix |-> "CGPS: ", msg |-> msg])>>

\* C13 as stated: notifyWebhook makes no POST when no webhook URL is
\* configured or when the value does not look like a well-formed HTTP(S) URL,
\* and exactly one POST with body {content: message, body: message} otherwise.
C13_PostOnlyToHttpUrl ==
    NotifyRan =>
        posts = (IF Truthy(hook.url) /\ LooksLikeHttpUrl(hook.url.val)
                 THEN OnePost(notified[1]) ELSE <<>>)

\* C13 as amended: notifyWebhook makes no POST when the webhook URL is unset,
\* empty or does not start with "http", and exactly one POST with body
\* {content: message, body: message} otherwise.
C13_PostIffStartsWithHttp ==
    NotifyRan =>
        posts = (IF Truthy(hook.url) /\ StartsWith(hook.url.val, <<"h", "t", "t", "p">>)
                 THEN OnePost(notified[1]) ELSE <<>>)

C13_Witness ==
    /\ pc = "throw"
    /\ hook.url = Str(<<"h", "t", "t", "p", "s", ":", "/", "/", "h">>)
    /\ hook.post = "2xx"
    /\ Len(posts) = 1
    /\ posts[1].content = posts[1].body

(***************************************************************************)
(* Two request calls interleaved at their awaits                           *)
(***************************************************************************)
\* Failed attempts after which an interleaved call is no longer followed.
MaxConcAttempts == 2

\* What request declares inside its body with let and const (and the
\* histories kept per call): each call has its own.
LocalsSharedIndex ==
    {"pc", "tokens", "attempts", "response", "data", "error", "outcome",
     "sent", "waits", "used", "lastStatus", "notified", "posts", "hook", "logged", "spun"}
Locals ==
    {"pc", "tokens", "attempts", "tokenIndex", "response", "data", "error", "outcome",
     "sent", "waits", "used", "lastStatus", "notified", "posts", "hook", "logged", "spun"}

\* The locals of the running call.
Mine ==
    [pc |-> pc, tokens |-> tokens, attempts |-> attempts, tokenIndex |-> tokenIndex,
     response |-> response, data |-> data, error |-> error, outcome |-> outcome,
     sent |-> sent, waits |-> waits, used |-> used, lastStatus |-> lastStatus,
     notified |-> notified, posts |-> posts, hook |-> hook, logged |-> logged,
     spun |-> spun]

\* A call at an await (or not started, or ended) lets the other call run.
Suspended(p) == p \in {"idle", "fetch", "json", "wait", "returned", "raised"}

\* The event loop resumes the other call: the running call's locals are set
\* aside and the other call's locals become current; what is not local to a
\* call stays as it is.
Switch ==
    /\ Suspended(pc)
    /\ Suspended(other.pc)
    /\ LET resumed == [f \in Locals |-> other[f]] @@ Mine
           aside == [f \in Locals |-> Mine[f]] @@ other IN
       /\ pc' = resumed.pc
       /\ tokens' = resumed.tokens
       /\ attempts' = resumed.attempts
       /\ tokenIndex' = resumed.tokenIndex
       /\ response' = resumed.response
       /\ data' = resumed.data
       /\ error' = resumed.error
       /\ outcome' = resumed.outcome
       /\ sent' = resumed.sent
       /\ waits' = resumed.waits
       /\ used' = resumed.used
       /\ lastStatus' = resumed.lastStatus
       /\ notified' = resumed.notified
       /\ posts' = resumed.posts
       /\ hook' = resumed.hook
       /\ logged' = resumed.logged
       /\ spun' = resumed.spun
       /\ other' = aside
    /\ UNCHANGED <<variant, env, options, API_KEY, normVars>>

\* Configurations with one, two and three tokens.
ConcEnvs == {e \in Envs : Truthy(e["API_TOKEN"]) /\ ~Truthy(e["API_TOKEN_3"])}

ConcInit ==
    /\ variant \in {"lib", "part"}
    /\ env \in ConcEnvs
    /\ ReqIdle
    /\ NormIdle
    /\ options = NoHeaders
    /\ API_KEY = Undefined
    /\ other = IdleLocals

ConcNext ==
    \/ Request
    \/ LoopTest /\ attempts < MaxConcAttempts
    \/ FetchReject
    \/ FetchResolve
    \/ JsonSettle
    \/ Wait
    \/ Switch

ConcSpec == ConcInit /\ [][ConcNext]_vars

\* The state of a started call l is what its own attempts make it: its
\* Credential Set is the configured one, its index is its own number of
\* failures modulo N, and its k-th request carried token (k - 1) mod N.
OwnState(l) ==
    l.pc # "idle" =>
        LET N == Len(l.tokens) IN
        /\ l.tokens = CredentialSet(variant, env)
        /\ l.tokenIndex = l.attempts % N
        /\ Len(l.used) = l.sent
        /\ l.sent = IF l.pc \in {"fetch", "json", "returned"}
                    THEN l.attempts + 1 ELSE l.attempts
        /\ \A k \in 1 .. Len(l.used) :
              /\ l.used[k].index = (k - 1) % N
              /\ l.used[k].token = l.tokens[((k - 1) % N) + 1]

\* C14: two calls interleaved at the awaits share no mutable state: the
\* attempt count, token index and tokens used of each are determined by its
\* own attempts, and the Credential Set of each stays the configured one.
C14_CallsShareNoState == OwnState(Mine) /\ OwnState(other)

C14_Witness ==
    /\ pc = "fetch"
    /\ attempts = 1
    /\ other.pc = "wait"
    /\ other.attempts = 2
    /\ Len(tokens) = 2
    /\ used[2].token = other.used[2].token

(***************************************************************************)
(* The three kinds of failed attempt                                       *)
(***************************************************************************)
\* The error an attempt ends with when the fetch settled as the step shows:
\* "none" when the attempt succeeds or is still running.
FailureOf(p, resp, nextPc) ==
    IF p = "fetch"
    THEN IF nextPc = "json" THEN "none" ELSE "TypeError: fetch failed"
    ELSE IF resp.body \notin JsonBodies THEN "SyntaxError: Unexpected token"
         ELSE IF ~Ok(resp) THEN "Error: Response not OK" ELSE "none"

\* C15: a network error, a body that does not parse (also on a 2xx response)
\* and a non-2xx status each add exactly one to the attempt counter and move
\* the token index one position on, circularly; only a 2xx response whose
\* body parsed is returned.
C15_FailuresHandledAlike ==
    [][(Len(tokens) >= 1 /\ pc \in {"fetch", "json"} /\ pc' # pc) =>
          LET failure == FailureOf(pc, response, pc') IN
          IF failure # "none"
          THEN /\ error' = failure
               /\ attempts' = attempts + 1
               /\ tokenIndex' = (tokenIndex + 1) % Len(tokens)
               /\ outcome'.kind # "returned"
          ELSE /\ attempts' = attempts
               /\ tokenIndex' = tokenIndex
               /\ pc' = "returned" => Ok(response) /\ response.body \in JsonBodies]_vars

C15_Witness ==
    /\ error = "SyntaxError: Unexpected token"
    /\ response.status = 200
    /\ response.body = "html"
    /\ attempts = 1
    /\ tokenIndex = 1
    /\ Len(tokens) = 3
    /\ outcome.kind = "none"

(***************************************************************************)
(* The token of each attempt                                               *)
(***************************************************************************)
\* The slots in the order of the configuration: the primary token, then the
\* auxiliary ones.
ConfigOrder == <<"API_TOKEN", "API_TOKEN_1", "API_TOKEN_2", "API_TOKEN_3">>

AuxiliaryFirst == <<"API_TOKEN_1", "API_TOKEN_2", "API_TOKEN_3", "API_TOKEN">>

C17_NoTrailingDelay ==
    (pc = "wait" /\ Len(tokens) >= 1) => attempts < maxAttempts

\* Every fetch, every response.json(), every wait and every webhook POST
\* settles, and code that can run does.
FairSpec == Spec /\ WF_vars(Next)

\* C18: every call ends, by returning or by raising.
C18_EveryCallEnds == <>(pc \in {"returned", "raised"})

\* C19: in one call the notifier is invoked at most once; when it has been
\* invoked the 50th attempt has failed, and the call has not returned; while
\* the notifier runs the failure is not yet raised; after an earlier failed
\* attempt (a backoff wait, or a new attempt) it has not been invoked.
C19_NotifierOnceAtExhaustion ==
    /\ Len(notified) <= 1
    /\ notified # <<>> =>
          /\ attempts = maxAttempts
          /\ pc \in {"notify", "webhook", "throw", "raised"}
          /\ outcome.kind \in {"none", "raised"}
    /\ pc \in {"notify", "webhook", "throw"} =>
          /\ Len(notified) = 1
          /\ outcome.kind = "none"
    /\ (pc \in {"loop", "fetch", "json", "wait", "returned"}
            \/ attempts < maxAttempts) => notified = <<>>

C19_Witness ==
    /\ pc = "raised"
    /\ Len(notified) = 1
    /\ attempts = maxAttempts
    /\ outcome.kind = "raised"

====
